---- MODULE Spec2Model ----
(***************************************************************************)
(* A model of crates/tuono/src/source_builder.rs: the route resolver       *)
(* (Route::new, has_dynamic_path), the route collector                     *)
(* (SourceBuilder::collect_route), the code generator                      *)
(* (create_routes_declaration, create_modules_declaration and the marker   *)
(* splicing of bundle_axum_source) and the output directory functions      *)
(* (check_tuono_folder, create_client_entry_files, create_main_file).      *)
(*                                                                         *)
(* A Rust String is modelled as the sequence of its characters, each a     *)
(* one-character string, so that str::replace, the regex of                *)
(* has_dynamic_path and the format! calls are computed character by        *)
(* character as the code computes them.                                    *)
(***************************************************************************)
EXTENDS Naturals, Sequences, FiniteSets

VARIABLES
    pc,             \* position of the caller: idle, collect, generated, done, panicked
    entries,        \* what glob yields, in the order it yields it
    pos,            \* index of the next entry for_each hands to collect_route
    route_map,      \* SourceBuilder.route_map: key |-> Route
    origin,         \* history: key |-> the absolute path whose collect_route call inserted it
    iter_order,     \* history: the order routes.iter() visited the keys in
    template,       \* static_files::AXUM_ENTRY_POINT
    bundled_file,   \* bundle_axum_source's bundled_file
    tuono,          \* what the name .tuono is in the current directory: absent, file, dir
    main_rs,        \* .tuono/main.rs
    client_files,   \* whether .tuono/server-main.tsx and client-main.tsx are written
    check_results,  \* history: what each call of check_tuono_folder returned
    arg,            \* the argument of a direct call of Route::new or has_dynamic_path
    res             \* the value that call returned

vars == <<pc, entries, pos, route_map, origin, iter_order, template, bundled_file,
          tuono, main_rs, client_files, check_results, arg, res>>

----------------------------------------------------------------------------
(* Bounds of the model. *)

\* The longest sequence of entries one glob traversal yields.
MaxEntries == 2
\* The number of blocks (marker lines and other lines) of a template.
MaxTemplate == 2
\* The number of name pieces between the leading '/' and the '.rs' of an argument.
MaxPieces == 5
\* The number of calls of check_tuono_folder in one behaviour.
MaxCalls == 2

----------------------------------------------------------------------------
(* String literals of the source. *)

ROOT_FOLDER == <<"s", "r", "c", "/", "r", "o", "u", "t", "e", "s">>
DEV_FOLDER == <<".", "t", "u", "o", "n", "o">>
DotRs == <<".", "r", "s">>
SlashIndexRs == <<"/", "i", "n", "d", "e", "x", ".", "r", "s">>
Slash == <<"/">>
Underscore == <<"_">>
DynPrefix == <<"d", "y", "n", "_">>
ROUTE_BUILDER == <<"/", "/", " ", "R", "O", "U", "T", "E", "_", "B", "U", "I", "L", "D", "E", "R", "\n">>
MODULE_IMPORTS == <<"/", "/", " ", "M", "O", "D", "U", "L", "E", "_", "I", "M", "P", "O", "R", "T", "S", "\n">>
RouteOpen == <<".", "r", "o", "u", "t", "e", "(", "\"">>
DataRouteOpen == <<".", "r", "o", "u", "t", "e", "(", "\"", "/", "_", "_", "t", "u", "o", "n", "o", "/", "d", "a", "t", "a">>
GetOpen == <<"\"", ",", " ", "g", "e", "t", "(">>
RouteClose == <<":", ":", "r", "o", "u", "t", "e", ")", ")">>
ApiClose == <<":", ":", "a", "p", "i", ")", ")">>
PathAttrOpen == <<"#", "[", "p", "a", "t", "h", "=", "\"", ".", ".", "/">>
PathAttrClose == <<"\"", "]", "\n", "m", "o", "d", " ">>
ModClose == <<";", "\n">>

----------------------------------------------------------------------------
(* str::replace and str::matches: the matches of a pattern are found from   *)
(* left to right and do not overlap; replace rewrites every one of them.    *)

MatchAt(s, i, pat) ==
    /\ i + Len(pat) - 1 <= Len(s)
    /\ \A k \in 1..Len(pat) : s[i + k - 1] = pat[k]

\* The start of the first match of pat in s at or after index i; 0 when there is none.
FindFrom(s, i, pat) ==
    LET last == Len(s) + 1 - Len(pat)
    IN  IF \E j \in i..last : MatchAt(s, j, pat)
        THEN CHOOSE j \in i..last :
                MatchAt(s, j, pat) /\ \A k \in i..(j - 1) : ~MatchAt(s, k, pat)
        ELSE 0

RECURSIVE ReplaceFrom(_, _, _, _)
ReplaceFrom(s, i, pat, rep) ==
    LET j == FindFrom(s, i, pat)
    IN  IF j = 0 THEN SubSeq(s, i, Len(s))
        ELSE SubSeq(s, i, j - 1) \o rep \o ReplaceFrom(s, j + Len(pat), pat, rep)

\* Only the first match is rewritten (str::replacen(pat, rep, 1)).
ReplaceFirst(s, pat, rep) ==
    LET j == FindFrom(s, 1, pat)
    IN  IF j = 0 THEN s
        ELSE SubSeq(s, 1, j - 1) \o rep \o SubSeq(s, j + Len(pat), Len(s))

\* s.replace(pat, rep), pat not empty.
Replace(s, pat, rep) == ReplaceFrom(s, 1, pat, rep)

RECURSIVE CountFrom(_, _, _)
CountFrom(s, i, pat) ==
    LET j == FindFrom(s, i, pat)
    IN  IF j = 0 THEN 0 ELSE 1 + CountFrom(s, j + Len(pat), pat)

\* s.matches(pat).count()
CountOcc(s, pat) == CountFrom(s, 1, pat)

----------------------------------------------------------------------------
(* The route resolver. *)

\* Regex \[(.*?)\] without the s flag: '.' matches every character but '\n'.
has_dynamic_path(route) ==
    \E i \in 1..Len(route) : \E j \in (i + 1)..Len(route) :
        /\ route[i] = "["
        /\ route[j] = "]"
        /\ \A k \in (i + 1)..(j - 1) : route[k] # "\n"

\* The rest of a string after chars().next().
AfterFirstChar(s) == IF s = <<>> THEN <<>> ELSE Tail(s)

Route_new(path) ==
    LET route_name == Replace(path, DotRs, <<>>)
        module == AfterFirstChar(route_name)
        axum_route == Replace(Replace(path, SlashIndexRs, <<>>), DotRs, <<>>)
    IN  IF axum_route = <<>>
        THEN [module_import |-> Replace(module, Slash, Underscore),
              axum_route |-> Slash]
        ELSE IF has_dynamic_path(route_name)
        THEN [module_import |->
                  Replace(Replace(Replace(module, Slash, Underscore),
                                  <<"[">>, DynPrefix), <<"]">>, <<>>),
              axum_route |-> Replace(Replace(axum_route, <<"[">>, <<":">>), <<"]">>, <<>>)]
        ELSE [module_import |-> Replace(module, Slash, Underscore),
              axum_route |-> axum_route]

----------------------------------------------------------------------------
(* The route collector. *)

\* std::env::current_dir() of the run.
base_path_str == <<"/", "p">>

\* format!("{base_path_str}/src/routes")
RoutesPrefix == base_path_str \o <<"/", "s", "r", "c", "/", "r", "o", "u", "t", "e", "s">>

\* HashMap::new()
EmptyMap == <<>>

\* HashMap::insert: the value of an existing key is overwritten.
Insert(map, key, value) ==
    [k \in (DOMAIN map) \cup {key} |-> IF k = key THEN value ELSE map[k]]

\* An entry of the traversal: a path, a GlobError, or a path that is not UTF-8.
OkEntry(path) == [kind |-> "ok", path |-> path]
GlobErrorEntry == [kind |-> "GlobError", path |-> <<>>]
NonUtf8Entry == [kind |-> "NonUtf8", path |-> <<>>]

\* path_buf.unwrap() panics on a GlobError, entry.to_str().unwrap() on a path
\* that is not UTF-8.
NeverPanics(entry) == FALSE

EntryPanics(entry) == entry.kind # "ok"

\* The key collect_route computes: every occurrence of the prefix is removed.
RouteKey(entry_path) == Replace(entry_path, RoutesPrefix, <<>>)

----------------------------------------------------------------------------
(* The code generator. *)

PageRoute(route) ==
    RouteOpen \o route.axum_route \o GetOpen \o route.module_import \o RouteClose

DataRoute(route) ==
    DataRouteOpen \o route.axum_route \o GetOpen \o route.module_import \o ApiClose

RECURSIVE RouteStatements(_, _)
RouteStatements(routes, order) ==
    IF order = <<>> THEN <<>>
    ELSE PageRoute(routes[Head(order)]) \o DataRoute(routes[Head(order)])
         \o RouteStatements(routes, Tail(order))

RECURSIVE PageStatementsOnly(_, _)
PageStatementsOnly(routes, order) ==
    IF order = <<>> THEN <<>>
    ELSE PageRoute(routes[Head(order)]) \o PageStatementsOnly(routes, Tail(order))

\* A generator that forgets the data route of every entry.
create_routes_declaration_no_data(routes, order) ==
    ROUTE_BUILDER \o PageStatementsOnly(routes, order)

\* order is the order in which routes.iter() visits the keys.
create_routes_declaration(routes, order) ==
    ROUTE_BUILDER \o RouteStatements(routes, order)

\* The path a module declaration names: "../{ROOT_FOLDER}{path_str}".
DeclaredPath(key) == <<".", ".", "/">> \o ROOT_FOLDER \o key

ModuleDeclaration(key, route) ==
    PathAttrOpen \o ROOT_FOLDER \o key \o PathAttrClose \o route.module_import \o ModClose

RECURSIVE ModuleStatements(_, _)
ModuleStatements(routes, order) ==
    IF order = <<>> THEN <<>>
    ELSE ModuleDeclaration(Head(order), routes[Head(order)])
         \o ModuleStatements(routes, Tail(order))

create_modules_declaration(routes, order) ==
    MODULE_IMPORTS \o ModuleStatements(routes, order)

\* A splice that rewrites only the first occurrence of each marker.
BundledFileFirstOnly(tmpl, routes, order) ==
    ReplaceFirst(ReplaceFirst(tmpl, ROUTE_BUILDER, create_routes_declaration(routes, order)),
                 MODULE_IMPORTS, create_modules_declaration(routes, order))

\* AXUM_ENTRY_POINT.replace(ROUTE_BUILDER, ..).replace(MODULE_IMPORTS, ..)
BundledFile(tmpl, routes, order) ==
    Replace(Replace(tmpl, ROUTE_BUILDER, create_routes_declaration(routes, order)),
            MODULE_IMPORTS, create_modules_declaration(routes, order))

\* Every order in which the keys of a HashMap can be visited.
IterationOrders(map) ==
    LET keys == DOMAIN map
        n == Cardinality(keys)
    IN  {f \in [1..n -> keys] : \A i, j \in 1..n : i # j => f[i] # f[j]}

----------------------------------------------------------------------------
(* The template, static_files::AXUM_ENTRY_POINT.  Following section 4.3 of *)
(* the design, a template is a sequence of lines, each a marker line or     *)
(* another line, and the embedded one holds each marker line once.          *)

OtherLine == <<"x", "\n">>
TemplateLines == {ROUTE_BUILDER, MODULE_IMPORTS, OtherLine}

RECURSIVE Flatten(_)
Flatten(seqs) == IF seqs = <<>> THEN <<>> ELSE Head(seqs) \o Flatten(Tail(seqs))

Templates ==
    {Flatten(f) : f \in UNION {[1..n -> TemplateLines] : n \in 0..MaxTemplate}}

AXUM_ENTRY_POINT == OtherLine \o MODULE_IMPORTS \o OtherLine \o ROUTE_BUILDER \o OtherLine

----------------------------------------------------------------------------
(* The output directory. *)

NoFile == [exists |-> FALSE, data |-> <<>>]
File(data) == [exists |-> TRUE, data |-> data]
OldMain == File(<<"o", "l", "d">>)

\* A check that calls create_dir whatever is_dir says.
check_tuono_folder_always_creates(t) ==
    IF t = "absent" THEN [tuono |-> "dir", result |-> "Ok"]
    ELSE [tuono |-> t, result |-> "Err"]

\* fs::create_dir fails with AlreadyExists when the name is taken by a file.
check_tuono_folder(t) ==
    IF t # "dir"
    THEN IF t = "absent" THEN [tuono |-> "dir", result |-> "Ok"]
         ELSE [tuono |-> t, result |-> "Err"]
    ELSE [tuono |-> t, result |-> "Ok"]

----------------------------------------------------------------------------
(* The inputs. *)

\* Route files of the project, as glob yields them.
RouteFiles ==
    {RoutesPrefix \o rel : rel \in
        {<<"/", "i", "n", "d", "e", "x", ".", "r", "s">>,
         <<"/", "a", "/", "b", ".", "r", "s">>,
         <<"/", "a", "_", "b", ".", "r", "s">>,
         <<"/", "[", "a", "]", ".", "r", "s">>,
         <<"/", "a", ".", "r", "s">>,
         RoutesPrefix \o <<"/", "a", ".", "r", "s">>}}

Entries == {OkEntry(p) : p \in RouteFiles} \cup {GlobErrorEntry, NonUtf8Entry}

\* The traversal yields every file once.
EntrySeqs ==
    {f \in UNION {[1..n -> Entries] : n \in 0..MaxEntries} :
        \A i, j \in 1..Len(f) : i # j => f[i] # f[j]}

\* Route files for the generator, two of them with the same Route.
GenRouteFiles ==
    {RoutesPrefix \o rel : rel \in
        {<<"/", "i", "n", "d", "e", "x", ".", "r", "s">>,
         <<"/", "[", "a", "]", ".", "r", "s">>,
         <<"/", "a", ".", "r", "s">>,
         <<"/", "a", ".", "r", "s", ".", "r", "s">>}}

GenEntrySeqs ==
    {f \in UNION {[1..n -> {OkEntry(p) : p \in GenRouteFiles}] : n \in 0..MaxEntries} :
        \A i, j \in 1..Len(f) : i # j => f[i] # f[j]}

\* What the current directory holds before the first call.
InitialFolders ==
    {[tuono |-> "absent", main_rs |-> NoFile, client_files |-> FALSE],
     [tuono |-> "file", main_rs |-> NoFile, client_files |-> FALSE],
     [tuono |-> "dir", main_rs |-> NoFile, client_files |-> FALSE],
     [tuono |-> "dir", main_rs |-> OldMain, client_files |-> TRUE]}

NamePieces ==
    {<<"/">>, <<"i", "n", "d", "e", "x">>, <<".", "r", "s">>, <<"a">>,
     <<"[">>, <<"]">>, <<"\n">>}

\* Relative paths of files that src/routes/**/*.rs matches.
RelPaths ==
    {p \in {Slash \o Flatten(f) \o DotRs :
                f \in UNION {[1..n -> NamePieces] : n \in 0..MaxPieces}} :
        FindFrom(p, 1, <<"/", "/">>) = 0}

NoResult == [kind |-> "none", route |-> [module_import |-> <<>>, axum_route |-> <<>>],
             dynamic |-> FALSE]

----------------------------------------------------------------------------
(* The pipeline. *)

InitWith(folder, tmpl, yielded) ==
    /\ pc = "idle"
    /\ entries = yielded
    /\ pos = 1
    /\ route_map = EmptyMap
    /\ origin = EmptyMap
    /\ iter_order = <<>>
    /\ template = tmpl
    /\ bundled_file = <<>>
    /\ tuono = folder.tuono
    /\ main_rs = folder.main_rs
    /\ client_files = folder.client_files
    /\ check_results = <<>>
    /\ arg = <<>>
    /\ res = NoResult

Init ==
    \E folder \in InitialFolders : \E yielded \in EntrySeqs :
        InitWith(folder, AXUM_ENTRY_POINT, yielded)

\* bundle_axum_source up to SourceBuilder::new.
StartBundle ==
    /\ pc = "idle"
    /\ pc' = "collect"
    /\ route_map' = EmptyMap
    /\ UNCHANGED <<entries, pos, origin, iter_order, template, bundled_file, tuono,
                   main_rs, client_files, check_results, arg, res>>

\* One call of collect_route by the for_each of collect_routes.
CollectRoute ==
    /\ pc = "collect"
    /\ pos <= Len(entries)
    /\ IF EntryPanics(entries[pos])
       THEN /\ pc' = "panicked"
            /\ UNCHANGED <<pos, route_map, origin>>
       ELSE LET path == RouteKey(entries[pos].path)
            IN  /\ route_map' = Insert(route_map, path, Route_new(path))
                /\ origin' = Insert(origin, path, entries[pos].path)
                /\ pos' = pos + 1
                /\ pc' = pc
    /\ UNCHANGED <<entries, iter_order, template, bundled_file, tuono, main_rs,
                   client_files, check_results, arg, res>>

\* The two declarations and the splice, once the traversal is exhausted.
Bundle ==
    /\ pc = "collect"
    /\ pos > Len(entries)
    /\ \E order \in IterationOrders(route_map) :
        /\ iter_order' = order
        /\ bundled_file' = BundledFile(template, route_map, order)
    /\ pc' = "generated"
    /\ UNCHANGED <<entries, pos, route_map, origin, template, tuono, main_rs,
                   client_files, check_results, arg, res>>

\* create_main_file: File::create fails when .tuono is no directory.
CreateMainFile ==
    /\ pc = "generated"
    /\ IF tuono = "dir"
       THEN /\ main_rs' = File(bundled_file)
            /\ pc' = "done"
       ELSE /\ main_rs' = main_rs
            /\ pc' = "panicked"
    /\ UNCHANGED <<entries, pos, route_map, origin, iter_order, template, bundled_file,
                   tuono, client_files, check_results, arg, res>>

\* A call of check_tuono_folder, before or after the bundling.
CheckTuonoFolder ==
    /\ pc \in {"idle", "done"}
    /\ Len(check_results) < MaxCalls
    /\ tuono' = check_tuono_folder(tuono).tuono
    /\ check_results' = Append(check_results, check_tuono_folder(tuono).result)
    /\ UNCHANGED <<pc, entries, pos, route_map, origin, iter_order, template,
                   bundled_file, main_rs, client_files, arg, res>>

\* A call of create_client_entry_files: both File::create fail without the directory.
CreateClientEntryFiles ==
    /\ pc \in {"idle", "done"}
    /\ client_files' = (IF tuono = "dir" THEN TRUE ELSE client_files)
    /\ UNCHANGED <<pc, entries, pos, route_map, origin, iter_order, template,
                   bundled_file, tuono, main_rs, check_results, arg, res>>

Next ==
    \/ StartBundle
    \/ CollectRoute
    \/ Bundle
    \/ CreateMainFile
    \/ CheckTuonoFolder
    \/ CreateClientEntryFiles

Spec == Init /\ [][Next]_vars

\* One call of bundle_axum_source on every template, with the output
\* directory in place and a traversal that yields no error.
GenInit ==
    \E tmpl \in Templates : \E yielded \in GenEntrySeqs :
        InitWith([tuono |-> "dir", main_rs |-> NoFile, client_files |-> FALSE],
                 tmpl, yielded)

GenNext ==
    \/ StartBundle
    \/ CollectRoute
    \/ Bundle
    \/ CreateMainFile

GenSpec == GenInit /\ [][GenNext]_vars

----------------------------------------------------------------------------
(* Direct calls of the resolver's functions. *)

RouteInit ==
    /\ pc = "call"
    /\ entries = <<>>
    /\ pos = 1
    /\ route_map = EmptyMap
    /\ origin = EmptyMap
    /\ iter_order = <<>>
    /\ template = <<>>
    /\ bundled_file = <<>>
    /\ tuono = "absent"
    /\ main_rs = NoFile
    /\ client_files = FALSE
    /\ check_results = <<>>
    /\ arg \in RelPaths
    /\ res = NoResult

CallRouteNew ==
    /\ pc = "call"
    /\ res = NoResult
    /\ res' = [kind |-> "route", route |-> Route_new(arg), dynamic |-> FALSE]
    /\ UNCHANGED <<pc, entries, pos, route_map, origin, iter_order, template,
                   bundled_file, tuono, main_rs, client_files, check_results, arg>>

CallHasDynamicPath ==
    /\ pc = "call"
    /\ res = NoResult
    /\ res' = [kind |-> "dynamic", route |-> NoResult.route,
               dynamic |-> has_dynamic_path(arg)]
    /\ UNCHANGED <<pc, entries, pos, route_map, origin, iter_order, template,
                   bundled_file, tuono, main_rs, client_files, check_results, arg>>

RouteNext == CallRouteNew \/ CallHasDynamicPath

RouteSpec == RouteInit /\ [][RouteNext]_vars

----------------------------------------------------------------------------
(* What the specification says of a path, stated without the code. *)

IndexName == <<"i", "n", "d", "e", "x">>

\* The path without its '.rs' extension (every argument ends in '.rs').
WithoutExtension(path) == SubSeq(path, 1, Len(path) - Len(DotRs))

\* The index of the last '/' of s; 0 when it has none.
LastSlash(s) ==
    LET at == {i \in 1..Len(s) : s[i] = "/"}
    IN  IF at = {} THEN 0 ELSE CHOOSE i \in at : \A k \in at : k <= i

\* s without its last segment when that segment is named index.
WithoutIndexSegment(s) ==
    IF LastSlash(s) > 0 /\ SubSeq(s, LastSlash(s) + 1, Len(s)) = IndexName
    THEN SubSeq(s, 1, LastSlash(s) - 1)
    ELSE s

\* s without the characters of skip.
Without(s, skip) == SelectSeq(s, LAMBDA c : c \notin skip)

\* Every '[' replaced by with, every other character kept.
RECURSIVE OpenBracketsAs(_, _)
OpenBracketsAs(s, with) ==
    IF s = <<>> THEN <<>>
    ELSE (IF Head(s) = "[" THEN with ELSE <<Head(s)>>) \o OpenBracketsAs(Tail(s), with)

\* A '[' followed later by a ']'.
HasBracketPair(s) ==
    \E i \in 1..Len(s) : \E j \in (i + 1)..Len(s) : s[i] = "[" /\ s[j] = "]"

HasNoBracket(s) == \A i \in 1..Len(s) : s[i] \notin {"[", "]"}

SpecAxumRoute(path) ==
    LET rest == Without(OpenBracketsAs(WithoutIndexSegment(WithoutExtension(path)),
                                       <<":">>), {"]"})
    IN  IF rest = <<>> THEN Slash ELSE rest

SpecModuleImport(path) ==
    LET name == [i \in 1..(Len(path) - Len(DotRs) - 1) |->
                    IF path[i + 1] = "/" THEN "_" ELSE path[i + 1]]
    IN  IF HasBracketPair(path)
        THEN Without(OpenBracketsAs(name, DynPrefix), {"]"})
        ELSE name

\* The components of a path, the empty ones dropped.
RECURSIVE Components(_)
Components(s) ==
    LET at == {i \in 1..Len(s) : s[i] = "/"}
        i == CHOOSE k \in at : \A m \in at : k <= m
    IN  IF s = <<>> THEN <<>>
        ELSE IF at = {} THEN <<s>>
        ELSE (IF i = 1 THEN <<>> ELSE <<SubSeq(s, 1, i - 1)>>)
             \o Components(SubSeq(s, i + 1, Len(s)))

\* The components with every ".." resolved against the one before it.
RECURSIVE Resolved(_, _)
Resolved(done, todo) ==
    IF todo = <<>> THEN done
    ELSE IF Head(todo) = <<".", ".">>
    THEN Resolved(IF done = <<>> THEN <<>> ELSE SubSeq(done, 1, Len(done) - 1), Tail(todo))
    ELSE Resolved(Append(done, Head(todo)), Tail(todo))

\* The file a path attribute of <base>/.tuono/main.rs names.
ResolveFromMainRs(declared) ==
    Resolved(<<>>, Components(base_path_str \o Slash \o DEV_FOLDER \o Slash \o declared))

IsBad(entry) == entry.kind \in {"GlobError", "NonUtf8"}

Generated == pc \in {"generated", "done"}

SameRoute(key) == {k \in DOMAIN route_map : route_map[k] = route_map[key]}

Last(s) == s[Len(s)]

----------------------------------------------------------------------------
(* The claims. *)

\* C1: for every relative path handed to Route::new, axum_route is the path
\* without its '.rs' extension and without a last segment named index, every
\* '[' replaced by ':' and every ']' removed, and '/' when nothing remains.
C1_AxumRoute ==
    res.kind = "route" => res.route.axum_route = SpecAxumRoute(arg)

\* C2: for every relative path handed to Route::new, module_import is the
\* path without its leading separator and its extension, every '/' replaced
\* by '_', and for a path with bracketed segments every '[' replaced by
\* 'dyn_' and every ']' removed.
C2_ModuleImport ==
    res.kind = "route" => res.route.module_import = SpecModuleImport(arg)

\* C3: the module_import of a Route made by Route::new holds no '/', no '['
\* and no ']'.
C3_ModuleImportIsClean ==
    res.kind = "route" =>
        \A i \in 1..Len(res.route.module_import) :
            res.route.module_import[i] \notin {"/", "[", "]"}

\* C4: has_dynamic_path answers true for a path that holds a '[' followed
\* later by a ']', whatever stands between them, and false for a path that
\* holds no bracket.
C4_DynamicDetection ==
    res.kind = "dynamic" =>
        /\ HasBracketPair(arg) => res.dynamic
        /\ HasNoBracket(arg) => ~res.dynamic

\* C5: with a template that holds the route marker once, the assembled text
\* holds as many page-route registrations and as many data-route
\* registrations as the table has entries, and the registrations of every
\* entry once for each entry that has its Route.
C5_OneRegistrationPerEntry ==
    (Generated /\ CountOcc(template, ROUTE_BUILDER) = 1) =>
        /\ CountOcc(bundled_file, RouteClose) = Cardinality(DOMAIN route_map)
        /\ CountOcc(bundled_file, ApiClose) = Cardinality(DOMAIN route_map)
        /\ \A key \in DOMAIN route_map :
            /\ CountOcc(bundled_file, PageRoute(route_map[key]))
                   = Cardinality(SameRoute(key))
            /\ CountOcc(bundled_file, DataRoute(route_map[key]))
                   = Cardinality(SameRoute(key))

C5_Witness ==
    /\ pc = "generated"
    /\ CountOcc(template, ROUTE_BUILDER) = 1
    /\ Cardinality(DOMAIN route_map) = 2
    /\ \A key \in DOMAIN route_map : SameRoute(key) = {key}

\* C6 as stated: only the first occurrence of each marker line is replaced,
\* the later ones are left as they were.
C6_OnlyFirstMarkerReplaced ==
    Generated => bundled_file = BundledFileFirstOnly(template, route_map, iter_order)

\* C6, amended: every occurrence of each marker line is replaced by its
\* generated block, so the text holds a block as many times as the template
\* holds its marker line.
C6_EveryMarkerReplaced ==
    Generated =>
        /\ CountOcc(bundled_file, create_routes_declaration(route_map, iter_order))
               = CountOcc(template, ROUTE_BUILDER)
        /\ CountOcc(bundled_file, create_modules_declaration(route_map, iter_order))
               = CountOcc(template, MODULE_IMPORTS)

C6_Witness ==
    /\ pc = "generated"
    /\ route_map # EmptyMap
    /\ CountOcc(template, ROUTE_BUILDER) = 2
    /\ CountOcc(bundled_file, create_routes_declaration(route_map, iter_order)) = 2

\* C7: the path every module declaration names, resolved from the directory
\* of <base>/.tuono/main.rs, is the file whose discovery made the entry.
C7_RoundTrip ==
    \A key \in DOMAIN route_map :
        ResolveFromMainRs(DeclaredPath(key)) = Components(origin[key])

\* C8: a bad entry stops the run where it stands: no later entry is
\* collected, nothing is generated, and main.rs changes only by the write
\* that follows the collection of every entry and the generation.
C8_AbortOnBadEntry ==
    /\ [](\A i \in 1..Len(entries) : IsBad(entries[i]) =>
            /\ pos <= i
            /\ pc \in {"idle", "collect", "panicked"}
            /\ pc = "panicked" => IsBad(entries[pos])
            /\ bundled_file = <<>>
            /\ DOMAIN route_map \subseteq {RouteKey(entries[j].path) : j \in 1..(i - 1)})
    /\ [][main_rs' # main_rs =>
            /\ pc = "generated"
            /\ pos = Len(entries) + 1
            /\ \A i \in 1..Len(entries) : ~IsBad(entries[i])
            /\ main_rs' = File(bundled_file)]_vars

C8_Witness ==
    /\ pc = "panicked"
    /\ Len(entries) = 2
    /\ pos = 1
    /\ IsBad(entries[1])
    /\ ~IsBad(entries[2])
    /\ route_map = EmptyMap
    /\ main_rs = OldMain

\* C9: a call of check_tuono_folder that finds no .tuono creates the
\* directory and returns Ok, one that finds the directory returns Ok and
\* changes nothing, so two calls in sequence both return Ok and the second
\* leaves the directory and what it holds as they were.
C9_CheckIsIdempotent ==
    /\ [](tuono # "file" => \A i \in 1..Len(check_results) : check_results[i] = "Ok")
    /\ [][check_results' # check_results =>
            /\ tuono = "absent" => (tuono' = "dir" /\ Last(check_results') = "Ok")
            /\ tuono = "dir" =>
                /\ Last(check_results') = "Ok"
                /\ UNCHANGED <<tuono, main_rs, client_files>>
            /\ (check_results # <<>> /\ Last(check_results) = "Ok") =>
                /\ Last(check_results') = "Ok"
                /\ UNCHANGED <<tuono, main_rs, client_files>>]_vars

C9_Witness ==
    /\ pc = "done"
    /\ check_results = <<"Ok", "Ok">>
    /\ tuono = "dir"
    /\ main_rs = File(bundled_file)
    /\ ~client_files

\* C10: no two entries of route_map have the same module_import.
C10_DistinctModuleImports ==
    \A k1, k2 \in DOMAIN route_map :
        k1 # k2 => route_map[k1].module_import # route_map[k2].module_import

====
